---------------------------- MODULE Spec2Model ----------------------------
(***************************************************************************)
(* A model of the medical-bill structuring engine:                         *)
(*   app/extraction/bill_extractor.py  (header locking, section tracking,  *)
(*                                      payment routing, item assembly)    *)
(*   app/db/mongo_client.py            (bill-scoped upsert)                *)
(*   app/main.py                       (process_bill)                      *)
(*                                                                         *)
(* Texts are TLA+ strings; a character is a string of length one.          *)
(* Amounts are integers counting hundredths (45.00 is 4500).               *)
(* An identifier is modelled by the payload that _make_id hashes: SHA-1 is *)
(* taken to be collision free on the payloads that occur.                  *)
(***************************************************************************)
EXTENDS Integers, Sequences, FiniteSets, TLC

\* Python's None: for a text, and for a number (no amount, page or y is negative)
None == "<None>"
NoNum == 0 - 1

\* ------------------------------------------------------------------------
\* Characters and strings
\* ------------------------------------------------------------------------
UPPER == "ABCDEFGHIJKLMNOPQRSTUVWXYZ"
LOWER == "abcdefghijklmnopqrstuvwxyz"
DIGITS == "0123456789"

Char(s, i) == SubSeq(s, i, i)

CharsOf(s) == { Char(s, i) : i \in 1..Len(s) }

UpperSet == CharsOf(UPPER)
LowerSet == CharsOf(LOWER)
DigitSet == CharsOf(DIGITS)

IsDigit(c) == c \in DigitSet
IsLetter(c) == c \in UpperSet \/ c \in LowerSet
IsSpace(c) == c \in {" ", "\t"}
\* \w of the regular expressions
IsWordChar(c) == IsLetter(c) \/ IsDigit(c) \/ c = "_"
\* [A-Z0-9]
IsUpperAlnum(c) == c \in UpperSet \/ IsDigit(c)
\* [\d,]
IsAmountChar(c) == IsDigit(c) \/ c = ","

IndexIn(alphabet, c) == CHOOSE i \in 1..Len(alphabet) : Char(alphabet, i) = c

UpperChar(c) == IF c \in LowerSet THEN Char(UPPER, IndexIn(LOWER, c)) ELSE c
LowerChar(c) == IF c \in UpperSet THEN Char(LOWER, IndexIn(UPPER, c)) ELSE c

RECURSIVE MapChars(_, _, _)
MapChars(s, i, up) ==
    IF i > Len(s) THEN ""
    ELSE (IF up THEN UpperChar(Char(s, i)) ELSE LowerChar(Char(s, i)))
         \o MapChars(s, i + 1, up)

\* str.upper / str.lower
Upper(s) == MapChars(s, 1, TRUE)
Lower(s) == MapChars(s, 1, FALSE)

\* the character at i, or "" outside the string
At(s, i) == IF i >= 1 /\ i <= Len(s) THEN Char(s, i) ELSE ""

\* `sub in s`, and the places where sub occurs
OccursAt(s, sub, i) == i >= 1 /\ i + Len(sub) - 1 <= Len(s)
                       /\ SubSeq(s, i, i + Len(sub) - 1) = sub
Contains(s, sub) == \E i \in 1..Len(s) : OccursAt(s, sub, i)

\* \b between the characters i-1 and i
Boundary(s, i) == IsWordChar(At(s, i - 1)) # IsWordChar(At(s, i))

\* str.strip
RECURSIVE LStrip(_)
LStrip(s) == IF Len(s) > 0 /\ IsSpace(Char(s, 1)) THEN LStrip(SubSeq(s, 2, Len(s))) ELSE s
RECURSIVE RStrip(_)
RStrip(s) == IF Len(s) > 0 /\ IsSpace(Char(s, Len(s))) THEN RStrip(SubSeq(s, 1, Len(s) - 1)) ELSE s
Strip(s) == RStrip(LStrip(s))

RECURSIVE Collapse(_, _)
Collapse(s, i) ==
    IF i > Len(s) THEN ""
    ELSE IF IsSpace(Char(s, i))
         THEN (IF IsSpace(At(s, i + 1)) THEN "" ELSE " ") \o Collapse(s, i + 1)
         ELSE Char(s, i) \o Collapse(s, i + 1)

\* re.sub(r"\s+", " ", s.strip())
_normalize_ws(s) == Collapse(Strip(s), 1)

\* character classes of the regular expressions, by name
InClass(cls, c) ==
    CASE cls = "digit"  -> IsDigit(c)
      [] cls = "amount" -> IsAmountChar(c)
      [] cls = "alnum"  -> IsUpperAlnum(c)
      [] cls = "letter" -> IsLetter(c)
      [] cls = "space"  -> IsSpace(c)
      [] OTHER          -> FALSE

\* the end of the longest run of characters of class cls that starts at i
\* (i - 1 when the run is empty)
RECURSIVE RunEnd(_, _, _)
RunEnd(s, i, cls) ==
    IF i <= Len(s) /\ InClass(cls, Char(s, i)) THEN RunEnd(s, i + 1, cls) ELSE i - 1

\* the start of the longest run of characters of class cls that ends at i
\* (i + 1 when the run is empty)
RECURSIVE RunStart(_, _, _)
RunStart(s, i, cls) ==
    IF i >= 1 /\ InClass(cls, Char(s, i)) THEN RunStart(s, i - 1, cls) ELSE i + 1

RECURSIVE ParseNat(_, _)
\* the value of the digits of s, read left to right after acc
ParseNat(s, acc) ==
    IF Len(s) = 0 THEN acc
    ELSE ParseNat(SubSeq(s, 2, Len(s)), 10 * acc + (IndexIn(DIGITS, Char(s, 1)) - 1))

RECURSIVE Remove(_, _)
\* s.replace(c, "")
Remove(s, c) ==
    IF Len(s) = 0 THEN ""
    ELSE (IF Char(s, 1) = c THEN "" ELSE Char(s, 1)) \o Remove(SubSeq(s, 2, Len(s)), c)

\* ------------------------------------------------------------------------
\* Payment / receipt detection            (bill_extractor.py, lines 28-52)
\* ------------------------------------------------------------------------
\* \bw\b occurs in t
HasWord(t, w) ==
    \E i \in 1..Len(t) :
        OccursAt(t, w, i) /\ Boundary(t, i) /\ Boundary(t, i + Len(w))

\* \b<prefix>[A-Z0-9]+\b matches at i: the end of the match, or 0.  The run
\* [A-Z0-9]+ is followed by \b only when it is taken whole and what follows
\* it is not "_".
CodeEnd(t, prefix, i) ==
    LET j == i + Len(prefix)
        k == RunEnd(t, j, "alnum")
    IN  IF OccursAt(t, prefix, i) /\ Boundary(t, i) /\ k >= j /\ Boundary(t, k + 1)
        THEN k ELSE 0

\* r"\bRCPO-[A-Z0-9]+\b"
MatchesRCPO(t) == \E i \in 1..Len(t) : CodeEnd(t, "RCPO-", i) > 0

\* r"\bRCPT[-/:]?[A-Z0-9]+\b"
MatchesRCPT(t) ==
    \E i \in 1..Len(t) : \E p \in {"RCPT", "RCPT-", "RCPT/", "RCPT:"} :
        CodeEnd(t, p, i) > 0

\* r"\b(UTR|RRN|TXN|TRANSACTION)\b"
MatchesTxnWord(t) == \E w \in {"UTR", "RRN", "TXN", "TRANSACTION"} : HasWord(t, w)

\* r"\b(PAYMENT|PAID|RECEIPT)\b"
MatchesPaidWord(t) == \E w \in {"PAYMENT", "PAID", "RECEIPT"} : HasWord(t, w)

\* r"\b(CASH|CARD|UPI|NET\s*BANKING)\b"
MatchesModeWord(t) ==
    \/ \E w \in {"CASH", "CARD", "UPI"} : HasWord(t, w)
    \/ \E i \in 1..Len(t) :
          /\ OccursAt(t, "NET", i) /\ Boundary(t, i)
          /\ LET j == RunEnd(t, i + 3, "space") + 1
             IN  OccursAt(t, "BANKING", j) /\ Boundary(t, j + 7)

\* any(re.search(p, t) for p in PAYMENT_PATTERNS)
PaymentPattern(t) ==
    \/ MatchesRCPO(t)
    \/ MatchesRCPT(t)
    \/ MatchesTxnWord(t)
    \/ MatchesPaidWord(t)
    \/ MatchesModeWord(t)

is_paymentish(text) == PaymentPattern(Upper(text))

\* r"\b(UTR|RRN|TXN)\s*[:#-]?\s*([A-Z0-9]{6,})\b": group 2 is the run
\* c..k when it is long enough and ends at a \b; <<>> otherwise
TxnSpan(u, c, k) == IF k - c + 1 >= 6 /\ Boundary(u, k + 1) THEN <<c, k>> ELSE <<>>

\* a: where the spaces after the word end; the optional separator and the
\* spaces after it are skipped
TxnGroup(u, a) == RunEnd(u, IF At(u, a) \in {":", "#", "-"} THEN a + 1 ELSE a, "space") + 1

TxnGroupSpan(u, c) == TxnSpan(u, c, RunEnd(u, c, "alnum"))

\* the pattern matches at i with the word w: the span of group 2, or <<>>
TxnRefAt(u, w, i) ==
    IF OccursAt(u, w, i) /\ Boundary(u, i)
    THEN TxnGroupSpan(u, TxnGroup(u, RunEnd(u, i + Len(w), "space") + 1))
    ELSE <<>>

TxnWords == {"UTR", "RRN", "TXN"}

MinOrZero(S) == IF S = {} THEN 0 ELSE CHOOSE x \in S : \A y \in S : x <= y

\* f"{m.group(1)}-{m.group(2)}"
TxnRefText(u, w, g) == w \o "-" \o SubSeq(u, g[1], g[2])

TxnRefOf(u, w, i) == TxnRefText(u, w, TxnRefAt(u, w, i))

\* r: where the leftmost receipt code starts, t: where the leftmost
\* transaction reference starts (0: nowhere)
ReferenceAt(u, r, t) ==
    IF r > 0 THEN SubSeq(u, r, CodeEnd(u, "RCPO-", r))
    ELSE IF t > 0
         THEN TxnRefOf(u, CHOOSE w \in TxnWords : TxnRefAt(u, w, t) # <<>>, t)
    ELSE None

ReferenceIn(u) ==
    ReferenceAt(u,
                MinOrZero({ i \in 1..Len(u) : CodeEnd(u, "RCPO-", i) > 0 }),
                MinOrZero({ i \in 1..Len(u) : \E w \in TxnWords : TxnRefAt(u, w, i) # <<>> }))

extract_reference(text) == IF text = "" THEN None ELSE ReferenceIn(Upper(text))

\* ------------------------------------------------------------------------
\* Amount extraction                      (bill_extractor.py, lines 58-76)
\* ------------------------------------------------------------------------
\* r"₹?\s*([\d,]+\.\d{2})\s*$" on the stripped text: group 1, or None.  The
\* search is leftmost, so the group starts where the run of [\d,] before
\* the point starts.
AmountGroupDecimal(s) ==
    LET n == Len(s)
        a == RunStart(s, n - 3, "amount")
    IN  IF n >= 4 /\ IsDigit(Char(s, n)) /\ IsDigit(Char(s, n - 1))
           /\ Char(s, n - 2) = "." /\ a <= n - 3
        THEN SubSeq(s, a, n) ELSE None

\* r"₹?\s*([\d,]+)\s*$" on the stripped text: group 1, or None
AmountGroupInteger(s) ==
    LET n == Len(s)
        a == RunStart(s, n, "amount")
    IN  IF n >= 1 /\ a <= n THEN SubSeq(s, a, n) ELSE None

\* the digits of a group once its commas are removed
DigitsValue(d, n) == 100 * ParseNat(SubSeq(d, 1, n - 3), 0) + ParseNat(SubSeq(d, n - 1, n), 0)

\* float(g) of a group "ddd.dd" with its commas removed, in hundredths
DecimalValue(g) == DigitsValue(Remove(g, ","), Len(Remove(g, ",")))

\* the first pattern whose group float() accepts decides; float("") raises
\* ValueError and the pattern is passed over
AmountFrom(g1, g2) ==
    IF g1 # None THEN DecimalValue(g1)
    ELSE IF g2 # None /\ Remove(g2, ",") # "" THEN 100 * ParseNat(Remove(g2, ","), 0)
    ELSE NoNum

AmountIn(s) == AmountFrom(AmountGroupDecimal(s), AmountGroupInteger(s))

extract_amount_from_text(text) == IF text = "" THEN NoNum ELSE AmountIn(Strip(text))

\* ------------------------------------------------------------------------
\* Section detection                      (bill_extractor.py, lines 82-120)
\* ------------------------------------------------------------------------
\* in the order of the dictionary
SECTION_HEADERS == <<
    <<"medicines", {"medicine", "medicines", "drug", "drugs", "pharmacy"}>>,
    <<"diagnostics_tests", {"diagnostic", "diagnostics", "investigation", "pathology",
                            "laboratory", "lab", "non-lab", "non lab", "imaging"}>>,
    <<"radiology", {"radiology", "x-ray", "xray", "ct", "mri", "ultrasound", "usg"}>>,
    <<"consultation", {"consultation", "consult", "doctor fee", "physician"}>>,
    <<"hospitalization", {"hospitalisation", "hospitalization", "room", "ward", "bed",
                          "icu", "nursing"}>>,
    <<"packages", {"package", "packages", "procedure package"}>>,
    <<"administrative", {"administrative", "registration", "processing", "documentation"}>>,
    <<"implants_devices", {"implant", "implants", "device", "devices", "stent", "pacemaker"}>>,
    <<"surgical_consumables", {"consumable", "consumables", "surgical", "gloves", "syringe",
                               "catheter"}>> >>

MaxHeaderLen == 80

\* re.search(r"[\d,]+\.\d{2}\s*$", t)
EndsInDecimalAmount(t) ==
    LET s == RStrip(t)
        n == Len(s)
    IN  n >= 4 /\ IsDigit(Char(s, n)) /\ IsDigit(Char(s, n - 1))
        /\ Char(s, n - 2) = "." /\ IsAmountChar(Char(s, n - 3))

\* the first section, in dictionary order, one of whose keywords is in t
SectionOf(hits) == IF hits = {} THEN None ELSE SECTION_HEADERS[MinOrZero(hits)][1]

SectionIn(t) ==
    IF Len(t) > MaxHeaderLen THEN None
    ELSE IF EndsInDecimalAmount(t) THEN None
    ELSE SectionOf({ i \in 1..Len(SECTION_HEADERS) :
                       \E k \in SECTION_HEADERS[i][2] : Contains(t, k) })

detect_section_header(text) == IF text = "" THEN None ELSE SectionIn(Strip(Lower(text)))

\* ------------------------------------------------------------------------
\* Header validation and locking          (bill_extractor.py, lines 126-200)
\* ------------------------------------------------------------------------
HEADER_FIELDS == {"patient_name", "patient_mrn", "billing_date", "bill_number"}

\* v has, from i on, the shape given: d a digit, s one of - and /, a a letter
ShapeAt(v, i, shape) ==
    /\ i + Len(shape) - 1 <= Len(v)
    /\ \A k \in 1..Len(shape) :
          LET c == Char(v, i + k - 1)
          IN  CASE Char(shape, k) = "d" -> IsDigit(c)
                [] Char(shape, k) = "s" -> c \in {"-", "/"}
                [] Char(shape, k) = "a" -> IsLetter(c)
                [] OTHER -> FALSE

HasShape(v, shape) == \E i \in 1..Len(v) : ShapeAt(v, i, shape)

\* r"\d+[A-Z]+\d+", ignoring case
DigitsLettersDigits(v) ==
    \E i \in 1..Len(v) :
        /\ IsDigit(Char(v, i))
        /\ IsLetter(At(v, i + 1))
        /\ IsDigit(At(v, RunEnd(v, i + 1, "letter") + 1))

\* VALUE_VALIDATORS: the lengths allowed, then the patterns (all searched
\* with re.IGNORECASE)
MinLenOf(field) ==
    CASE field = "patient_name" -> 3
      [] field = "patient_mrn"  -> 5
      [] field = "billing_date" -> 8
      [] field = "bill_number"  -> 5

MaxLenOf(field) ==
    CASE field = "patient_name" -> 100
      [] field = "patient_mrn"  -> 20
      [] field = "billing_date" -> 30
      [] field = "bill_number"  -> 40

MatchesInvalid(field, v) ==
    /\ field = "patient_name"
    /\ \/ ShapeAt(v, 1, "aadddddd")                                  \* ^[A-Z]{2}\d{6,}
       \/ (Len(v) >= 10 /\ \A i \in 1..Len(v) : IsDigit(Char(v, i))) \* ^\d{10,}$

MatchesValid(field, v) ==
    CASE field = "patient_name" -> HasShape(v, "aa")                 \* [A-Za-z]{2,}
      [] field = "patient_mrn"  -> HasShape(v, "ddddd")              \* \d{5,}
      [] field = "billing_date" -> \/ HasShape(v, "ddsddsdddd")
                                   \/ HasShape(v, "ddddsddsdd")
      [] field = "bill_number"  -> \/ HasShape(v, "aad")             \* [A-Z]{2,}\d+
                                   \/ DigitsLettersDigits(v)

ValidStripped(field, v) ==
    IF v = "" THEN FALSE
    ELSE IF field \notin HEADER_FIELDS THEN TRUE
    ELSE IF Len(v) < MinLenOf(field) \/ Len(v) > MaxLenOf(field) THEN FALSE
    ELSE IF MatchesInvalid(field, v) THEN FALSE
    ELSE MatchesValid(field, v)

_validate(field, value) == ValidStripped(field, Strip(value))

\* a variant of offer in which a later valid candidate replaces the value
offerLastValid(b, cand) ==
    IF ~_validate(cand.field, cand.value) THEN b
    ELSE (cand.field :> cand) @@ b

\* HeaderAggregator.offer: the new value of self.best
offer(b, cand) ==
    IF ~_validate(cand.field, cand.value) THEN b
    ELSE IF cand.field \notin DOMAIN b THEN (cand.field :> cand) @@ b
    \* never overwrite once set unless the existing value is invalid
    ELSE IF ~_validate(b[cand.field].field, b[cand.field].value)
         THEN (cand.field :> cand) @@ b
    ELSE b

\* HeaderAggregator.finalize
finalize(b) == [k \in DOMAIN b |-> b[k].value]

\* ------------------------------------------------------------------------
\* Header candidates from labelled lines  (bill_extractor.py, lines 203-232)
\* ------------------------------------------------------------------------
\* LABEL_PATTERNS in dictionary order; a pattern <<anchored, w1, w2>> stands
\* for  [^]w1\s*w2\s*[:.]?  (w2 may be empty)
LABEL_PATTERNS == <<
    <<"patient_name", << <<FALSE, "patient", "name">>, <<TRUE, "name", "">> >> >>,
    <<"patient_mrn",  << <<FALSE, "patient", "mrn">>, <<FALSE, "mrn", "">>,
                         <<FALSE, "uhid", "">> >> >>,
    <<"bill_number",  << <<FALSE, "bill", "no">>, <<FALSE, "bill", "number">>,
                         <<FALSE, "invoice", "no">> >> >>,
    <<"billing_date", << <<FALSE, "billing", "date">>, <<FALSE, "bill", "date">> >> >> >>

\* the label w1\s*w2 matches in tl at i and w2 starts at j: the index of its
\* last character, or 0
LabelEndFrom(tl, pat, i, j) ==
    IF (pat[1] => i = 1) /\ OccursAt(tl, pat[2], i) /\ OccursAt(tl, pat[3], j)
    THEN j + Len(pat[3]) - 1 ELSE 0

LabelEndAt(tl, pat, i) == LabelEndFrom(tl, pat, i, RunEnd(tl, i + Len(pat[2]), "space") + 1)

LabelFound(tl, pat) == \E i \in 1..Len(tl) : LabelEndAt(tl, pat, i) > 0

\* group 1 of re.search(pat + r"\s*(.+)", text, re.IGNORECASE) for a label
\* that ends at e, the spaces after it at a - 1 and the spaces after its
\* optional separator at c - 1: what is left, or the separator itself when
\* nothing else follows (None when the label ends the line)
LabelRest(text, e, a, c) ==
    IF e = Len(text) THEN None
    ELSE IF c <= Len(text) THEN SubSeq(text, c, Len(text))
    ELSE SubSeq(text, a, Len(text))

LabelAfterSpaces(text, e, a) ==
    LabelRest(text, e, a,
              RunEnd(text, IF At(text, a) \in {":", "."} THEN a + 1 ELSE a, "space") + 1)

LabelAfter(text, e) == LabelAfterSpaces(text, e, RunEnd(text, e + 1, "space") + 1)

\* the search is leftmost
LabelValueIn(text, tl, pat) ==
    LabelAfter(text, LabelEndAt(tl, pat, MinOrZero({ k \in 1..Len(tl) : LabelEndAt(tl, pat, k) > 0 })))

LabelValue(text, pat) == LabelValueIn(text, Lower(text), pat)

\* re.sub(r"^[:.]\s*", "", s) of a stripped s
WithoutLeadingSeparator(s) ==
    IF At(s, 1) \in {":", "."} THEN SubSeq(s, RunEnd(s, 2, "space") + 1, Len(s)) ELSE s

StripLeadingSeparator(g) == WithoutLeadingSeparator(Strip(g))

\* int(l.get("page", 0) or 0)
PageOf(l) == IF l.page = NoNum THEN 0 ELSE l.page

CandidateOf(field, g, page) ==
    IF g = None THEN <<>>
    ELSE << [field |-> field, value |-> StripLeadingSeparator(g), page |-> page] >>

\* found: the patterns of the field that occur in the line; only the first
\* of them is used
FieldCandidateOf(text, page, f, found) ==
    IF found = {} THEN <<>>
    ELSE CandidateOf(LABEL_PATTERNS[f][1],
                     LabelValue(text, LABEL_PATTERNS[f][2][MinOrZero(found)]), page)

FieldCandidate(text, page, f) ==
    FieldCandidateOf(text, page, f,
                     { k \in 1..Len(LABEL_PATTERNS[f][2]) :
                          LabelFound(Lower(text), LABEL_PATTERNS[f][2][k]) })

RECURSIVE FieldCandidates(_, _, _)
\* for field, patterns in LABEL_PATTERNS.items(), from the f-th on
FieldCandidates(text, page, f) ==
    IF f > Len(LABEL_PATTERNS) THEN <<>>
    ELSE FieldCandidate(text, page, f) \o FieldCandidates(text, page, f + 1)

\* the candidates of one line
StrippedLineCandidates(text, page) ==
    IF text = "" THEN <<>> ELSE FieldCandidates(text, page, 1)

LineCandidates(line) == StrippedLineCandidates(Strip(line.text), PageOf(line))

RECURSIVE extract_header_candidates(_)
extract_header_candidates(lines) ==
    IF lines = <<>> THEN <<>>
    ELSE LineCandidates(Head(lines)) \o extract_header_candidates(Tail(lines))

\* ------------------------------------------------------------------------
\* Identifiers and number formatting      (bill_extractor.py, lines 239-241)
\* ------------------------------------------------------------------------
RECURSIVE Join(_, _)
\* sep.join(parts)
Join(parts, sep) ==
    IF parts = <<>> THEN ""
    ELSE IF Len(parts) = 1 THEN parts[1]
    ELSE parts[1] \o sep \o Join(Tail(parts), sep)

\* the payload whose SHA-1 digest is the identifier
_make_id(prefix, parts) == Join(<<prefix>> \o parts, "|")

TwoDigits(n) == IF n < 10 THEN "0" \o ToString(n) ELSE ToString(n)

\* f"{amount:.2f}" of an amount in hundredths
Format2f(h) == ToString(h \div 100) \o "." \o TwoDigits(h % 100)

\* f"{amount or ''}": nothing for None and for 0.0, else str(float)
FormatOrEmpty(h) ==
    IF h = NoNum \/ h = 0 THEN ""
    ELSE ToString(h \div 100) \o "."
         \o (IF h % 10 = 0 THEN ToString((h % 100) \div 10) ELSE TwoDigits(h % 100))

\* ------------------------------------------------------------------------
\* Ordering by (page, y)                  (bill_extractor.py, lines 261-319)
\* ------------------------------------------------------------------------
\* box: <<>> when the geometry is missing, <<left x, top y, height>> for a
\* list or tuple of points; any other box (a numpy polygon has a fourth
\* component here) fails the isinstance test and gives 0.0
y_key_line(l) == IF Len(l.box) = 3 THEN l.box[2] ELSE 0

\* (page, y) tuples compare lexicographically
KeyLess(a, b) == a[1] < b[1] \/ (a[1] = b[1] /\ a[2] < b[2])
KeyLeq(a, b) == ~KeyLess(b, a)

\* one step of a stable sort of <<key, value>> pairs: p goes after every pair
\* whose key is not greater, that is at the place `at`
InsertAt(s, p, at) == SubSeq(s, 1, at - 1) \o <<p>> \o SubSeq(s, at, Len(s))

FirstLater(s, p, later) == IF later = {} THEN Len(s) + 1 ELSE MinOrZero(later)

InsertStable(s, p) ==
    InsertAt(s, p, FirstLater(s, p, { i \in 1..Len(s) : KeyLess(p[1], s[i][1]) }))

RECURSIVE StableSort(_)
\* sorted(pairs, key = first component), which is stable
StableSort(s) ==
    IF s = <<>> THEN <<>>
    ELSE InsertStable(StableSort(SubSeq(s, 1, Len(s) - 1)), s[Len(s)])

Second(pairs) == [i \in 1..Len(pairs) |-> pairs[i][2]]

\* sorted(lines, key=lambda l: (page, y_key_line(l)))
SortLines(lines) ==
    Second(StableSort([i \in 1..Len(lines) |->
                          <<<<PageOf(lines[i]), y_key_line(lines[i])>>, lines[i]>>]))

EventOf(line, sec) ==
    IF sec = None THEN <<>> ELSE << <<<<PageOf(line), y_key_line(line)>>, sec>> >>

RECURSIVE DetectEvents(_)
\* the section events in the order they are appended: <<(page, y), section>>
DetectEvents(sortedLines) ==
    IF sortedLines = <<>> THEN <<>>
    ELSE EventOf(Head(sortedLines), detect_section_header(Head(sortedLines).text))
         \o DetectEvents(Tail(sortedLines))

RECURSIVE bisect_left(_, _, _, _)
\* a variant: bisect.bisect_left, which stops before the keys equal to x
bisect_left(a, x, lo, hi) ==
    IF lo < hi
    THEN IF KeyLeq(x, a[((lo + hi) \div 2) + 1])
         THEN bisect_left(a, x, lo, (lo + hi) \div 2)
         ELSE bisect_left(a, x, ((lo + hi) \div 2) + 1, hi)
    ELSE lo

RECURSIVE bisect_right(_, _, _, _)
\* bisect.bisect_right(a, x) with lo and hi counted from 0
bisect_right(a, x, lo, hi) ==
    IF lo < hi
    THEN IF KeyLess(x, a[((lo + hi) \div 2) + 1])
         THEN bisect_right(a, x, lo, (lo + hi) \div 2)
         ELSE bisect_right(a, x, ((lo + hi) \div 2) + 1, hi)
    ELSE lo

First(pairs) == [i \in 1..Len(pairs) |-> pairs[i][1]]

SectionAtIndex(events, idx0) == IF idx0 >= 0 THEN events[idx0 + 1][2] ELSE None

\* events: the sorted section events (section_keys and section_vals)
section_at(events, page, y) ==
    IF events = <<>> THEN None
    ELSE SectionAtIndex(events, bisect_right(First(events), <<page, y>>, 0, Len(events)) - 1)

\* ------------------------------------------------------------------------
\* Routing and assembly                   (bill_extractor.py, lines 321-468)
\* ------------------------------------------------------------------------
CATEGORIES == <<"medicines", "regulated_pricing_drugs", "surgical_consumables",
                "implants_devices", "diagnostics_tests", "radiology", "consultation",
                "hospitalization", "packages", "administrative", "other">>

CategorySet == { CATEGORIES[i] : i \in 1..Len(CATEGORIES) }

\* the loop state of extract: the category mapping, the payments and, on the
\* line path, the current section
EmptyLoopState == [categorized |-> [c \in CategorySet |-> <<>>],
                   payments |-> <<>>,
                   current_section |-> None]

PaymentRecord(pid, desc, amount, ref, page) ==
    [payment_id |-> pid, description |-> desc, amount |-> amount, reference |-> ref,
     page |-> page]

PaymentOf(desc, amount, ref, page) ==
    PaymentRecord(_make_id("payment", << IF ref = None THEN "" ELSE ref,
                                         FormatOrEmpty(amount), Lower(desc), ToString(page) >>),
                  desc, amount, ref, page)

\* payments.append({...})
AppendPayment(st, text, desc, page) ==
    [st EXCEPT !.payments =
        Append(@, PaymentOf(desc, extract_amount_from_text(text), extract_reference(text), page))]

ItemOf(category, desc, amount, sec, page) ==
    [item_id |-> _make_id("item", <<category, Format2f(amount), Lower(desc), ToString(page)>>),
     description |-> desc, amount |-> amount, category |-> category, page |-> page,
     section_raw |-> sec]

\* a variant that files the item well but leaves the section as its category
AppendItemUncoerced(st, desc, amount, sec, page) ==
    [st EXCEPT !.categorized[IF sec \in CategorySet THEN sec ELSE "other"] =
        Append(@, ItemOf(sec, desc, amount, sec, page))]

\* categorized[category].append({...}) for the section sec
AppendItem(st, desc, amount, sec, page) ==
    [st EXCEPT !.categorized[IF sec \in CategorySet THEN sec ELSE "other"] =
        Append(@, ItemOf(IF sec \in CategorySet THEN sec ELSE "other", desc, amount, sec, page))]

\* for c in cols, left to right: the first column from the left that parses
FirstColumnAmount(cols, k) ==
    IF \A j \in 1..k : extract_amount_from_text(cols[j]) = NoNum THEN NoNum
    ELSE CHOOSE j \in 1..k :
            /\ extract_amount_from_text(cols[j]) # NoNum
            /\ \A i \in 1..(j - 1) : extract_amount_from_text(cols[i]) = NoNum

RECURSIVE LastColumnAmount(_, _)
\* for c in reversed(cols): the first amount found from the k-th column down,
\* or None
LastColumnAmount(cols, k) ==
    IF k = 0 THEN NoNum
    ELSE IF extract_amount_from_text(cols[k]) # NoNum THEN k
    ELSE LastColumnAmount(cols, k - 1)

\* the amount of a block: that column's, or the trailing amount of the text
BlockAmount(cols, k, text) ==
    IF k = NoNum THEN extract_amount_from_text(text) ELSE extract_amount_from_text(cols[k])

\* float(block.get("y", 0.0) or 0.0)
YOf(block) == IF block.y = NoNum THEN 0 ELSE block.y

ItemOrDrop(st, desc, amount, sec, page) ==
    IF amount = NoNum \/ amount <= 0 THEN st ELSE AppendItem(st, desc, amount, sec, page)

\* the part of the block loop after the payment test (lines 364-392)
BlockItem(st, block, events, text, desc) ==
    ItemOrDrop(st, desc,
               BlockAmount(block.columns, LastColumnAmount(block.columns, Len(block.columns)), text),
               section_at(events, PageOf(block), YOf(block)), PageOf(block))

\* a variant of the block loop without its continue: a payment row goes on
\* to be an item
BlockRoutedFallingThrough(st, block, events, text, desc) ==
    IF is_paymentish(text) \/ is_paymentish(desc)
    THEN BlockItem(AppendPayment(st, text, desc, PageOf(block)), block, events, text, desc)
    ELSE BlockItem(st, block, events, text, desc)

\* exclusion-first: route receipts/payments to payments[], and continue
BlockRouted(st, block, events, text, desc) ==
    IF is_paymentish(text) \/ is_paymentish(desc)
    THEN AppendPayment(st, text, desc, PageOf(block))
    ELSE BlockItem(st, block, events, text, desc)

\* desc = _normalize_ws(description) or text
BlockDescribed(st, block, events, text, d) ==
    BlockRouted(st, block, events, text, IF d = "" THEN text ELSE d)

\* one iteration of the loop over item_blocks
BlockStep(st, block, events) ==
    BlockDescribed(st, block, events, _normalize_ws(block.text), _normalize_ws(block.description))

\* the part of the line loop after the payment test (lines 421-436)
LineItem(st, line, text) ==
    ItemOrDrop(st, text, extract_amount_from_text(text), st.current_section, PageOf(line))

\* the line loop after the test for an empty text
LineRouted(st, line, text, sec) ==
    IF sec # None THEN [st EXCEPT !.current_section = sec]
    ELSE IF is_paymentish(text) THEN AppendPayment(st, text, text, PageOf(line))
    ELSE LineItem(st, line, text)

LineNormalized(st, line, text) ==
    IF text = "" THEN st ELSE LineRouted(st, line, text, detect_section_header(text))

\* one iteration of the line-based fallback loop
LineStep(st, line) == LineNormalized(st, line, _normalize_ws(line.text))

RECURSIVE OfferAll(_, _)
\* header_agg.offer(cand) for every candidate, in order
OfferAll(b, cands) ==
    IF cands = <<>> THEN b ELSE OfferAll(offer(b, Head(cands)), Tail(cands))

RECURSIVE Dedupe(_, _)
\* the values of s not in seen, each once, in order of first occurrence
Dedupe(s, seen) ==
    IF s = <<>> THEN <<>>
    ELSE IF Head(s) = "" \/ Head(s) \in seen THEN Dedupe(Tail(s), seen)
    ELSE <<Head(s)>> \o Dedupe(Tail(s), seen \cup {Head(s)})

RECURSIVE ValidBillNumbers(_)
ValidBillNumbers(cands) ==
    IF cands = <<>> THEN <<>>
    ELSE (IF Head(cands).field = "bill_number" /\ _validate("bill_number", Head(cands).value)
          THEN <<Strip(Head(cands).value)>> ELSE <<>>)
         \o ValidBillNumbers(Tail(cands))

Get(f, k) == IF k \in DOMAIN f THEN f[k] ELSE None

\* bill_numbers.insert(0, primary) when primary is not among them
WithPrimary(primary, bill_numbers) ==
    IF primary \notin {None, ""} /\ \A i \in 1..Len(bill_numbers) : bill_numbers[i] # primary
    THEN <<primary>> \o bill_numbers ELSE bill_numbers

NameOrUnknown(name) == IF name \in {None, ""} THEN "UNKNOWN" ELSE name

HeaderRecord(header_locked, bill_numbers) ==
    [header |-> [primary_bill_number |-> Get(header_locked, "bill_number"),
                 bill_numbers |-> WithPrimary(Get(header_locked, "bill_number"), bill_numbers),
                 billing_date |-> Get(header_locked, "billing_date")],
     patient |-> [name |-> NameOrUnknown(Get(header_locked, "patient_name")),
                  mrn |-> Get(header_locked, "patient_mrn")]]

HeaderFrom(cands) ==
    HeaderRecord(finalize(OfferAll(<<>>, cands)), Dedupe(ValidBillNumbers(cands), {}))

\* the "header" and "patient" of the result
HeaderOf(sortedLines) == HeaderFrom(extract_header_candidates(sortedLines))

\* the legacy fallback: with no lines, the non-blank lines of raw_text
\* (raw_text is kept as the sequence of its lines)
RECURSIVE LegacyLines(_)
LegacyLines(raw) ==
    IF raw = <<>> THEN <<>>
    ELSE (IF Strip(Head(raw)) = "" THEN <<>>
          ELSE << [text |-> Strip(Head(raw)), page |-> 0, box |-> <<>>] >>)
         \o LegacyLines(Tail(raw))

EffectiveLines(ocr) == IF ocr.lines = <<>> THEN LegacyLines(ocr.raw_text) ELSE ocr.lines

\* a variant of the guardrail that compares without upper()
LeakedCaseSensitive(categorized) ==
    \E c \in CategorySet : \E i \in 1..Len(categorized[c]) :
        Contains(categorized[c][i].description, "RCPO-")

\* the guardrail: some categorized item's description holds a receipt code
Leaked(categorized) ==
    \E c \in CategorySet : \E i \in 1..Len(categorized[c]) :
        Contains(Upper(categorized[c][i].description), "RCPO-")

RECURSIVE SumAmounts(_)
\* sum(i.get("amount", 0.0) or 0.0 for i in v)
SumAmounts(items) ==
    IF items = <<>> THEN 0 ELSE Head(items).amount + SumAmounts(Tail(items))

\* round(x, 2): amounts are whole hundredths, which rounding leaves alone
Round2(h) == h

RECURSIVE SumOver(_, _)
\* sum(subtotals.values()), in the order of the keys
SumOver(f, keys) ==
    IF keys = <<>> THEN 0 ELSE f[Head(keys)] + SumOver(f, Tail(keys))

\* a variant: subtotals that leave out the first item of each category
SubtotalsWithoutFirst(categorized) ==
    [c \in CategorySet |->
        Round2(SumAmounts(IF categorized[c] = <<>> THEN <<>> ELSE Tail(categorized[c])))]

Subtotals(categorized) == [c \in CategorySet |-> Round2(SumAmounts(categorized[c]))]

GrandTotal(subtotals) == Round2(SumOver(subtotals, CATEGORIES))

ResultRecord(ocr, head, st, now, subtotals) ==
    [extraction_date |-> now,
     header |-> head.header,
     patient |-> head.patient,
     items |-> st.categorized,
     payments |-> st.payments,
     subtotals |-> subtotals,
     grand_total |-> GrandTotal(subtotals),
     raw_ocr_text |-> ocr.raw_text]

\* the dictionary extract returns
ResultOf(ocr, head, st, now) == ResultRecord(ocr, head, st, now, Subtotals(st.categorized))

RECURSIVE FoldBlocks(_, _, _)
FoldBlocks(st, blocks, events) ==
    IF blocks = <<>> THEN st
    ELSE FoldBlocks(BlockStep(st, Head(blocks), events), Tail(blocks), events)

RECURSIVE FoldLines(_, _)
FoldLines(st, lines) ==
    IF lines = <<>> THEN st ELSE FoldLines(LineStep(st, Head(lines)), Tail(lines))

\* the loop state when the loops of extract are over
LoopStateOf(ocr, lines_sorted) ==
    IF ocr.item_blocks # <<>>
    THEN FoldBlocks(EmptyLoopState, ocr.item_blocks, StableSort(DetectEvents(lines_sorted)))
    ELSE FoldLines(EmptyLoopState, lines_sorted)

ExtractLooped(ocr, now, lines_sorted, st) ==
    IF Leaked(st.categorized) THEN [raised |-> TRUE]
    ELSE ResultOf(ocr, HeaderOf(lines_sorted), st, now)

ExtractSorted(ocr, now, lines_sorted) ==
    ExtractLooped(ocr, now, lines_sorted, LoopStateOf(ocr, lines_sorted))

\* BillExtractor.extract as a whole: the result, or [raised |-> TRUE] for the
\* AssertionError of the guardrail
extract(ocr, now) == ExtractSorted(ocr, now, SortLines(EffectiveLines(ocr)))

\* ------------------------------------------------------------------------
\* Row clustering and column segmentation       (paddle_engine.py, 15-200)
\* ------------------------------------------------------------------------
\* a box is <<>> (None or empty), <<left x, top y, height>> for a list of
\* points, or <<left x, top y, height, "ndarray">> for a numpy polygon
_top_y(box) == IF box = <<>> THEN 0 ELSE box[2]

_left_x(box) == IF box = <<>> THEN 0 ELSE box[1]

_height(box) == IF box = <<>> THEN 0 ELSE box[3]

RECURSIVE _normalize_page(_)
\* the fragments of one page whose text is not blank, stripped; they carry
\* text, confidence and box, and no page
_normalize_page(page_res) ==
    IF page_res = <<>> THEN <<>>
    ELSE (IF Strip(Head(page_res).text) = "" THEN <<>>
          ELSE << [text |-> Strip(Head(page_res).text), page |-> NoNum,
                   box |-> Head(page_res).box] >>)
         \o _normalize_page(Tail(page_res))

RECURSIVE NormalizeAll(_)
\* all_lines.extend(page_lines) for every page of every image
NormalizeAll(results) ==
    IF results = <<>> THEN <<>>
    ELSE _normalize_page(Head(results)) \o NormalizeAll(Tail(results))

RECURSIVE TextsOf(_)
\* the texts of the lines, in order
TextsOf(lines) == IF lines = <<>> THEN <<>> ELSE <<Head(lines).text>> \o TextsOf(Tail(lines))

RECURSIVE SumHeights(_)
SumHeights(lines) ==
    IF lines = <<>> THEN 0 ELSE _height(Head(lines).box) + SumHeights(Tail(lines))

\* row_threshold = avg_height * 0.8 if avg_height > 0 else 15, kept as the
\* fraction <<numerator, denominator>>
RowThresholdOf(total, n) == IF total > 0 THEN <<4 * total, 5 * n>> ELSE <<15, 1>>

RowThreshold(lines) == RowThresholdOf(SumHeights(lines), Len(lines))

Abs(d) == IF d < 0 THEN 0 - d ELSE d

\* abs(line["_y"] - prev["_y"]) <= row_threshold
WithinThreshold(line, prev, threshold) ==
    Abs(_top_y(line.box) - _top_y(prev.box)) * threshold[2] <= threshold[1]

\* lines.sort(key=lambda x: x["_y"])
SortByTopY(lines) ==
    Second(StableSort([i \in 1..Len(lines) |-> <<<<_top_y(lines[i].box), 0>>, lines[i]>>]))

\* a variant of the sweep that compares with the first fragment of the row
SweepFromRowStart(sw, line, threshold) ==
    IF WithinThreshold(line, sw.current[1], threshold)
    THEN [sw EXCEPT !.current = Append(@, line)]
    ELSE [rows |-> Append(sw.rows, sw.current), current |-> <<line>>]

\* one iteration of the sweep (lines 104-110): sw holds rows and current
SweepStep(sw, line, threshold) ==
    IF WithinThreshold(line, sw.current[Len(sw.current)], threshold)
    THEN [sw EXCEPT !.current = Append(@, line)]
    ELSE [rows |-> Append(sw.rows, sw.current), current |-> <<line>>]

RECURSIVE SweepAll(_, _, _)
SweepAll(sw, lines, threshold) ==
    IF lines = <<>> THEN sw
    ELSE SweepAll(SweepStep(sw, Head(lines), threshold), Tail(lines), threshold)

RowsOf(sw) == Append(sw.rows, sw.current)

ClusterSorted(sorted, threshold) ==
    RowsOf(SweepAll([rows |-> <<>>, current |-> <<sorted[1]>>], Tail(sorted), threshold))

\* _cluster_rows(lines): the rows (lines is left sorted by top y)
_cluster_rows(lines) ==
    IF lines = <<>> THEN <<>> ELSE ClusterSorted(SortByTopY(lines), RowThreshold(lines))

\* row.sort(key=lambda l: _left_x(l["box"]))
SortByLeftX(row) ==
    Second(StableSort([i \in 1..Len(row) |-> <<<<_left_x(row[i].box), 0>>, row[i]>>]))

RECURSIVE TextsWhere(_, _, _)
\* the texts of the fragments of row left of date_x (left = TRUE), or at and
\* right of it
TextsWhere(row, date_x, left) ==
    IF row = <<>> THEN <<>>
    ELSE (IF (_left_x(Head(row).box) < date_x) = left THEN <<Head(row).text>> ELSE <<>>)
         \o TextsWhere(Tail(row), date_x, left)

SplitSorted(row, date_x) == <<TextsWhere(row, date_x, TRUE), TextsWhere(row, date_x, FALSE)>>

\* _split_columns(row, date_x): description_parts and numeric_parts
_split_columns(row, date_x) == SplitSorted(SortByLeftX(row), date_x)

\* the test of a date candidate: "-" in text and len(text) == 10
IsDateCandidate(text) == Contains(text, "-") /\ Len(text) = 10

DateCandidates(lines) ==
    { _left_x(lines[i].box) : i \in { j \in 1..Len(lines) : IsDateCandidate(lines[j].text) } }

DefaultDateX == 250

\* date_x = min(date_candidates) if date_candidates else 250
DateX(lines) ==
    IF DateCandidates(lines) = {} THEN DefaultDateX
    ELSE CHOOSE x \in DateCandidates(lines) : \A z \in DateCandidates(lines) : x <= z

\* the item block of a row split into desc and nums: no page and no y
BlockOf(desc, nums) ==
    [text |-> Join(desc \o nums, " "), description |-> Join(desc, " "), columns |-> nums,
     page |-> NoNum, y |-> NoNum]

\* a variant that keeps a row without numeric parts
BlocksOfSplitKeepingAll(parts) == << BlockOf(parts[1], parts[2]) >>

\* lines 184-194: nothing when desc or nums is empty
BlocksOfSplit(parts) ==
    IF parts[1] = <<>> \/ parts[2] = <<>> THEN <<>> ELSE << BlockOf(parts[1], parts[2]) >>

RECURSIVE BlocksOfRows(_, _)
BlocksOfRows(rows, date_x) ==
    IF rows = <<>> THEN <<>>
    ELSE BlocksOfSplit(_split_columns(Head(rows), date_x)) \o BlocksOfRows(Tail(rows), date_x)

OcrOutput(raw, lines, blocks) == [raw_text |-> raw, lines |-> lines, item_blocks |-> blocks]

\* run_ocr once the fragments are read: raw_text joins the texts in reading
\* order, lines is the list _cluster_rows has sorted
GroupLines(lines, sorted) ==
    OcrOutput(TextsOf(lines), sorted, BlocksOfRows(_cluster_rows(lines), DateX(lines)))

OcrOf(lines) ==
    IF lines = <<>> THEN OcrOutput(<<>>, <<>>, <<>>) ELSE GroupLines(lines, SortByTopY(lines))

\* run_ocr(img_paths), results being what ocr.predict gave for the images
run_ocr(results) == OcrOf(NormalizeAll(results))

\* ------------------------------------------------------------------------
\* Inputs
\* ------------------------------------------------------------------------
\* at most MaxRows lines and item blocks in one OCR result
MaxRows == 3

\* OCR line texts: an item row, a receipt row and a row whose receipt code is
\* glued to a letter; two section captions; a caption that also holds
\* payment vocabulary
RowTexts == {"Paracetamol 500mg 45.00", "RCPO-1234 CASH 500.00", "xrcpo-1 20.00"}

CaptionTexts == {"PHARMACY", "LAB"}

MixedCaption == "Pharmacy Receipt"

\* where a line is: no page and no geometry at all, or a page and a box
NoPlace == [page |-> NoNum, box |-> <<>>]

FirstPage == [page |-> 0, box |-> <<10, 5, 10>>]

SecondPage == [page |-> 1, box |-> <<10, 2, 10>>]

LineAt(t, p) == [text |-> t, page |-> p.page, box |-> p.box]

\* the rows and the mixed caption come without geometry, the captions on the
\* first page, one of them without geometry too
Lines == { LineAt(t, NoPlace) : t \in RowTexts \cup {"PHARMACY", MixedCaption} }
         \cup { LineAt(t, FirstPage) : t \in CaptionTexts }

\* rows as the clusterer hands them over: description parts and columns;
\* the other rows are a receipt, a receipt code glued to a letter, a row
\* without any amount, and a row whose only amount is zero and comes before
\* a column that is none
ItemRow == <<"Paracetamol 500mg", <<"1", "45.00">>>>

OtherRows == { <<"RCPO-1234 CASH", <<"500.00">>>>,
               <<"xrcpo-1", <<"20.00">>>>,
               <<"Dressing", <<"x">>>>,
               <<"Room", <<"0.00", "n/a">>>> }

\* a row without columns, whose amount is in its text
PlacedRow == <<"Gauze 12.00", <<>>>>

BlockNoPlace == [page |-> NoNum, y |-> NoNum]

BlockPlace == [page |-> 1, y |-> 2]

BlockAt(r, p) ==
    [text |-> Join(<<r[1]>> \o r[2], " "), description |-> r[1], columns |-> r[2],
     page |-> p.page, y |-> p.y]

\* the blocks come without a place, as run_ocr makes them, but for one
Blocks == { BlockAt(ItemRow, BlockNoPlace), BlockAt(PlacedRow, BlockPlace) }
          \cup { BlockAt(r, BlockNoPlace) : r \in OtherRows }

SeqsOf(S, n) == UNION { [1..k -> S] : k \in 0..n }

\* the OCR results of at most MaxRows rows: lines with the raw text joined
\* from them and any item blocks, or (the legacy shape) raw text alone
OcrResults ==
    UNION { { [raw_text |-> TextsOf(ls), lines |-> ls, item_blocks |-> bs] :
                ls \in [1..k -> Lines], bs \in SeqsOf(Blocks, MaxRows - k) } :
            k \in 0..MaxRows }
    \cup { [raw_text |-> raw, lines |-> <<>>, item_blocks |-> <<>>] :
             raw \in SeqsOf(RowTexts \cup {MixedCaption}, MaxRows) }

\* ------------------------------------------------------------------------
\* Storage  (mongo_client.py, lines 81-132, and main.py, lines 13-43)
\* ------------------------------------------------------------------------
\* a variant of $addToSet that appends like $push
push(arr, each) == arr \o each

RECURSIVE addToSet(_, _)
\* $addToSet with $each: each element is appended unless the array already
\* holds an equal one
addToSet(arr, each) ==
    IF each = <<>> THEN arr
    ELSE addToSet(IF \E i \in 1..Len(arr) : arr[i] = Head(each)
                  THEN arr ELSE Append(arr, Head(each)),
                  Tail(each))

\* $addToSet on items.<category> for every category of the update
AddItems(old, each) ==
    [c \in DOMAIN old \cup DOMAIN each |->
        addToSet(IF c \in DOMAIN old THEN old[c] ELSE <<>>,
                 IF c \in DOMAIN each THEN each[c] ELSE <<>>)]

\* process_bill, step 5: the extraction result with the metadata of the upload
BillData(r, upload_id, pdf) ==
    [extraction_date |-> r.extraction_date, header |-> r.header, patient |-> r.patient,
     items |-> r.items, payments |-> r.payments, subtotals |-> r.subtotals,
     grand_total |-> r.grand_total, raw_ocr_text |-> r.raw_ocr_text,
     upload_id |-> upload_id, source_pdf |-> pdf.name, page_count |-> pdf.page_count,
     schema_version |-> 1]

\* upsert_bill, lines 93-127: the update built from the data at the time now
UpdateOf(upload_id, data, now) ==
    [setOnInsert |-> [_id |-> upload_id, upload_id |-> upload_id, created_at |-> now,
                      source_pdf |-> data.source_pdf,
                      schema_version |-> data.schema_version],
     set |-> [updated_at |-> now, page_count |-> data.page_count,
              extraction_date |-> data.extraction_date, header |-> data.header,
              patient |-> data.patient, subtotals |-> data.subtotals, summary |-> <<>>,
              grand_total |-> data.grand_total, raw_ocr_text |-> data.raw_ocr_text,
              status |-> "complete"],
     addToSet |-> [payments |-> data.payments, items |-> data.items]]

\* the document after the update: the identity fields as given, the $set
\* fields of the update, the arrays extended
DocumentWith(identity, payments, items, update) ==
    [_id |-> identity._id, upload_id |-> identity.upload_id,
     created_at |-> identity.created_at, source_pdf |-> identity.source_pdf,
     schema_version |-> identity.schema_version,
     updated_at |-> update.set.updated_at, page_count |-> update.set.page_count,
     extraction_date |-> update.set.extraction_date, header |-> update.set.header,
     patient |-> update.set.patient, subtotals |-> update.set.subtotals,
     summary |-> update.set.summary, grand_total |-> update.set.grand_total,
     raw_ocr_text |-> update.set.raw_ocr_text, status |-> update.set.status,
     payments |-> addToSet(payments, update.addToSet.payments),
     items |-> AddItems(items, update.addToSet.items)]

\* the places in the collection of the documents with this _id
Matching(coll, id) == { i \in 1..Len(coll) : coll[i]._id = id }

\* a variant that inserts a new document at every call, like insert_bill
insert_one(coll, id, update, found) ==
    Append(coll, DocumentWith(update.setOnInsert, <<>>, <<>>, update))

\* collection.update_one({"_id": id}, update, upsert=True), found being the
\* places of the matching documents: the first is updated, and with none a
\* document is inserted with the $setOnInsert fields
update_found(coll, id, update, found) ==
    IF found = {} THEN Append(coll, DocumentWith(update.setOnInsert, <<>>, <<>>, update))
    ELSE [coll EXCEPT ![MinOrZero(found)] = DocumentWith(@, @.payments, @.items, update)]

update_one(coll, id, update) == update_found(coll, id, update, Matching(coll, id))

\* at most MaxCalls calls of process_bill
MaxCalls == 3

\* the uploads: one page with a bill number and an item; two pages with two
\* bill numbers, the same item and a receipt; a section with the same row
\* twice; and a row the guardrail rejects
Pdfs ==
    { [name |-> "a.pdf", page_count |-> 1,
       ocr |-> [raw_text |-> <<"Bill No: AB12345">>,
                lines |-> <<LineAt("Bill No: AB12345", NoPlace)>>,
                item_blocks |-> <<BlockAt(ItemRow, BlockNoPlace)>>]],
      [name |-> "b.pdf", page_count |-> 2,
       ocr |-> [raw_text |-> <<"Bill No: AB12345", "Bill No: CD67890">>,
                lines |-> <<LineAt("Bill No: AB12345", NoPlace),
                            LineAt("Bill No: CD67890", SecondPage)>>,
                item_blocks |-> <<BlockAt(ItemRow, BlockNoPlace),
                                  BlockAt(<<"RCPO-1234 CASH", <<"500.00">>>>, BlockNoPlace)>>]],
      [name |-> "c.pdf", page_count |-> 1,
       ocr |-> [raw_text |-> <<"PHARMACY">>,
                lines |-> <<LineAt("PHARMACY", NoPlace)>>,
                item_blocks |-> <<BlockAt(ItemRow, BlockNoPlace),
                                  BlockAt(ItemRow, BlockNoPlace)>>]],
      [name |-> "d.pdf", page_count |-> 1,
       ocr |-> [raw_text |-> <<"xrcpo-1 20.00">>,
                lines |-> <<LineAt("xrcpo-1 20.00", NoPlace)>>,
                item_blocks |-> <<>>]] }

\* the upload identifier a caller passes, or None
GivenIds == {"u1", None}

\* uuid.uuid4().hex: unlike every identifier given or made before
FreshId(n) == "uuid-" \o ToString(n)

\* at most MaxOcrRows printed rows in one scanned document
MaxOcrRows == 3

Fragment(t, box) == [text |-> t, box |-> box]

PrintedRow(page, fragments) == [page |-> page, fragments |-> fragments]

\* the printed rows of a bill as the OCR engine reads them: a section
\* caption at the top of page 1; item rows 8 units apart and slightly
\* skewed, one read amount first, one on page 2; a date and a quantity
\* without height; a row and a date without geometry; a caption with a
\* numpy polygon; a blank fragment
PrintedRows ==
    { PrintedRow(1, << Fragment("DIAGNOSTICS TESTS", <<10, 10, 10>>) >>),
      PrintedRow(1, << Fragment("CBC", <<10, 40, 10>>), Fragment("300.00", <<300, 44, 10>>) >>),
      PrintedRow(1, << Fragment("120.00", <<300, 52, 10>>), Fragment("Urea", <<10, 48, 10>>) >>),
      PrintedRow(2, << Fragment("ESR", <<10, 56, 10>>), Fragment("150.00", <<300, 60, 10>>) >>),
      PrintedRow(1, << Fragment("01-02-2024", <<220, 12, 0>>) >>),
      PrintedRow(1, << Fragment("2 x", <<230, 20, 0>>) >>),
      PrintedRow(2, << Fragment("Gauze 10.00", <<>>) >>),
      PrintedRow(2, << Fragment("12-10-2024", <<>>) >>),
      PrintedRow(2, << Fragment("PHARMACY", <<10, 70, 10, "ndarray">>) >>),
      PrintedRow(1, << Fragment("  ", <<10, 40, 10>>) >>) }

RECURSIVE FragmentsOn(_, _)
\* the fragments of the printed rows of one page, in reading order
FragmentsOn(printed, page) ==
    IF printed = <<>> THEN <<>>
    ELSE (IF Head(printed).page = page THEN Head(printed).fragments ELSE <<>>)
         \o FragmentsOn(Tail(printed), page)

\* the scans of a two-page bill
ScannedBills ==
    { << FragmentsOn(printed, 1), FragmentsOn(printed, 2) >> :
        printed \in SeqsOf(PrintedRows, MaxOcrRows) }

\* ------------------------------------------------------------------------
\* State
\* ------------------------------------------------------------------------
VARIABLES
    ocr,             \* the OCR result given to extract
    pc,              \* where the extraction run is
    lines_sorted,    \* the lines in (page, y) order
    inserted,        \* the section events in the order they were appended
    section_events,  \* the section events after the sort
    head,            \* the locked header and the patient
    st,              \* categorized, payments, current_section
    idx,             \* the loop position, from 1
    result,          \* what extract returned
    clock,           \* datetime.now()
    candidates,      \* the header candidates the loop goes over
    best,            \* HeaderAggregator.best
    offered,         \* the candidates offered to the aggregator so far
    collection,      \* the documents of the bills collection, in insertion order
    pending,         \* the upsert_bill calls that have built their update
    calls,           \* how many process_bill calls were made
    applied,         \* the calls whose update was applied, in that order
    pages,           \* what ocr.predict gave: the fragments of each page image
    all_lines,       \* run_ocr: the fragments read so far
    raw_text,        \* run_ocr: their texts in reading order
    row_threshold,   \* _cluster_rows: the threshold, as <<numerator, denominator>>
    rows,            \* _cluster_rows: the rows closed so far
    current,         \* _cluster_rows: the row being filled
    date_x,          \* run_ocr: the anchor of the date column
    item_blocks      \* run_ocr: the item blocks built so far

extractVars == <<ocr, pc, lines_sorted, inserted, section_events, head, st, idx, result>>

headerVars == <<candidates, best, offered>>

storeVars == <<collection, pending, calls, applied>>

ocrVars == <<pages, all_lines, raw_text, row_threshold, rows, current, date_x, item_blocks>>

vars == <<extractVars, clock, headerVars, storeVars, ocrVars>>

NoHead == [header |-> [primary_bill_number |-> None, bill_numbers |-> <<>>,
                       billing_date |-> None],
           patient |-> [name |-> "UNKNOWN", mrn |-> None]]

\* before extract has done anything
ExtractStart ==
    /\ pc = "start"
    /\ lines_sorted = <<>>
    /\ inserted = <<>>
    /\ section_events = <<>>
    /\ head = NoHead
    /\ st = EmptyLoopState
    /\ idx = 1
    /\ result = <<>>

\* a fresh HeaderAggregator
HeaderStart == candidates = <<>> /\ best = <<>> /\ offered = <<>>

\* before run_ocr has read anything
OcrStart ==
    /\ all_lines = <<>>
    /\ raw_text = <<>>
    /\ row_threshold = <<15, 1>>
    /\ rows = <<>>
    /\ current = <<>>
    /\ date_x = DefaultDateX
    /\ item_blocks = <<>>

\* an empty collection
StoreStart ==
    /\ collection = <<>>
    /\ pending = {}
    /\ calls = 0
    /\ applied = <<>>

Init ==
    /\ ocr \in OcrResults
    /\ ExtractStart
    /\ clock = 0
    /\ HeaderStart
    /\ StoreStart
    /\ pages = <<>>
    /\ OcrStart

\* lines 249-319: the legacy fallback, the sort, the header lock, the
\* section events
Prepare ==
    /\ pc = "start"
    /\ lines_sorted' = SortLines(EffectiveLines(ocr))
    /\ head' = HeaderOf(lines_sorted')
    /\ inserted' = DetectEvents(lines_sorted')
    /\ section_events' = StableSort(inserted')
    /\ pc' = IF ocr.item_blocks # <<>> THEN "blocks" ELSE "lines"
    /\ UNCHANGED <<ocr, st, idx, result, clock, headerVars, storeVars, ocrVars>>

\* lines 341-392: one item block
NextBlock ==
    /\ pc = "blocks"
    /\ idx <= Len(ocr.item_blocks)
    /\ st' = BlockStep(st, ocr.item_blocks[idx], section_events)
    /\ idx' = idx + 1
    /\ UNCHANGED <<ocr, pc, lines_sorted, inserted, section_events, head, result, clock,
                   headerVars, storeVars, ocrVars>>

\* lines 396-436: one line of the fallback
NextLine ==
    /\ pc = "lines"
    /\ idx <= Len(lines_sorted)
    /\ st' = LineStep(st, lines_sorted[idx])
    /\ idx' = idx + 1
    /\ UNCHANGED <<ocr, pc, lines_sorted, inserted, section_events, head, result, clock,
                   headerVars, storeVars, ocrVars>>

LoopDone ==
    \/ pc = "blocks" /\ idx > Len(ocr.item_blocks)
    \/ pc = "lines" /\ idx > Len(lines_sorted)

\* lines 438-443: the guardrail raises
Raise ==
    /\ LoopDone
    /\ Leaked(st.categorized)
    /\ pc' = "raised"
    /\ UNCHANGED <<ocr, lines_sorted, inserted, section_events, head, st, idx, result, clock,
                   headerVars, storeVars, ocrVars>>

\* lines 445-468: the totals and the result
Return ==
    /\ LoopDone
    /\ ~Leaked(st.categorized)
    /\ result' = ResultOf(ocr, head, st, clock)
    /\ pc' = "returned"
    /\ UNCHANGED <<ocr, lines_sorted, inserted, section_events, head, st, idx, clock,
                   headerVars, storeVars, ocrVars>>

Next == Prepare \/ NextBlock \/ NextLine \/ Raise \/ Return

Spec == Init /\ [][Next]_vars

\* ------------------------------------------------------------------------
\* The header lock, candidate by candidate
\* ------------------------------------------------------------------------
\* at most MaxHeaderLines lines in one OCR result
MaxHeaderLines == 3

\* labelled lines: a name that is a bill number, two names, a bill number,
\* a bill number that is too short, and a line with two labels
HeaderTexts == {"Patient Name: AB123456", "Patient Name: John Doe", "Name: Jane Roe",
                "Bill No: AB12345", "Bill No: 12", "Bill Date: 01/02/2024 MRN: 123456"}

\* the texts that also come on a later page
LaterHeaderTexts == {"Patient Name: John Doe", "Name: Jane Roe", "Bill No: 12"}

HeaderLines == { LineAt(t, NoPlace) : t \in HeaderTexts }
               \cup { LineAt(t, SecondPage) : t \in LaterHeaderTexts }

HeaderOcrResults ==
    { [raw_text |-> TextsOf(ls), lines |-> ls, item_blocks |-> <<>>] :
        ls \in SeqsOf(HeaderLines, MaxHeaderLines) }

InitHeader ==
    /\ ocr \in HeaderOcrResults
    /\ ExtractStart
    /\ clock = 0
    /\ HeaderStart
    /\ StoreStart
    /\ pages = <<>>
    /\ OcrStart

\* lines 270 and 276: the sort and the candidates
SortForHeader ==
    /\ pc = "start"
    /\ lines_sorted' = SortLines(EffectiveLines(ocr))
    /\ candidates' = extract_header_candidates(lines_sorted')
    /\ pc' = "offering"
    /\ UNCHANGED <<ocr, inserted, section_events, head, st, idx, result, clock, best, offered,
                   storeVars, ocrVars>>

\* lines 276-279: header_agg.offer(cand) for the next candidate
Offer ==
    /\ pc = "offering"
    /\ idx <= Len(candidates)
    /\ best' = offer(best, candidates[idx])
    /\ offered' = Append(offered, candidates[idx])
    /\ idx' = idx + 1
    /\ UNCHANGED <<ocr, pc, lines_sorted, inserted, section_events, head, st, result, clock,
                   candidates, storeVars, ocrVars>>

\* lines 281-294: header_agg.finalize() and the bill numbers
Lock ==
    /\ pc = "offering"
    /\ idx > Len(candidates)
    /\ head' = HeaderRecord(finalize(best), Dedupe(ValidBillNumbers(candidates), {}))
    /\ pc' = "locked"
    /\ UNCHANGED <<ocr, lines_sorted, inserted, section_events, st, idx, result, clock,
                   headerVars, storeVars, ocrVars>>

NextHeader == SortForHeader \/ Offer \/ Lock

SpecHeader == InitHeader /\ [][NextHeader]_vars

\* ------------------------------------------------------------------------
\* Uploads: process_bill and the upsert, call by call
\* ------------------------------------------------------------------------
NoOcr == [raw_text |-> <<>>, lines |-> <<>>, item_blocks |-> <<>>]

InitStore ==
    /\ ocr = NoOcr
    /\ ExtractStart
    /\ clock = 0
    /\ HeaderStart
    /\ StoreStart
    /\ pages = <<>>
    /\ OcrStart

\* upload_id = upload_id or uuid.uuid4().hex
IdOf(given) == IF given = None THEN FreshId(calls) ELSE given

\* process_bill up to the update_one of upsert_bill, r being what extract
\* returned at the time clock: the metadata, and the update built at the next
\* reading of the time
Submit(pdf, given, r) ==
    /\ calls < MaxCalls
    /\ "raised" \notin DOMAIN r
    /\ pending' = pending \cup
          { [call |-> calls + 1,
             pdf |-> pdf.name,
             update |-> UpdateOf(IdOf(given), BillData(r, IdOf(given), pdf), clock + 1)] }
    /\ calls' = calls + 1
    /\ clock' = clock + 2
    /\ UNCHANGED <<extractVars, headerVars, ocrVars, collection, applied>>

\* process_bill when extract raises: nothing reaches the collection
SubmitFails(pdf, given, r) ==
    /\ calls < MaxCalls
    /\ "raised" \in DOMAIN r
    /\ calls' = calls + 1
    /\ clock' = clock + 1
    /\ UNCHANGED <<extractVars, headerVars, ocrVars, collection, pending, applied>>

\* process_bill(pdf_path, upload_id) once the pages are read and extracted
ProcessBill(pdf, r) ==
    \E given \in GivenIds : Submit(pdf, given, r) \/ SubmitFails(pdf, given, r)

\* mongo_client.py, line 131: the update_one of one of the calls under way
ApplyUpdate(p) ==
    /\ collection' = update_one(collection, p.update.setOnInsert._id, p.update)
    /\ applied' = Append(applied, p)
    /\ pending' = pending \ {p}
    /\ UNCHANGED <<extractVars, headerVars, ocrVars, calls, clock>>

NextStore ==
    \/ \E pdf \in Pdfs : ProcessBill(pdf, extract(pdf.ocr, clock))
    \/ \E p \in pending : ApplyUpdate(p)

SpecStore == InitStore /\ [][NextStore]_vars

\* ------------------------------------------------------------------------
\* run_ocr step by step, and the extraction of what it returns
\* ------------------------------------------------------------------------
InitOcr ==
    /\ pages \in ScannedBills
    /\ ocr = NoOcr
    /\ pc = "ocr"
    /\ lines_sorted = <<>>
    /\ inserted = <<>>
    /\ section_events = <<>>
    /\ head = NoHead
    /\ st = EmptyLoopState
    /\ idx = 1
    /\ result = <<>>
    /\ clock = 0
    /\ HeaderStart
    /\ StoreStart
    /\ OcrStart

\* paddle_engine.py, lines 149-170: the fragments of all pages; with none,
\* run_ocr returns at once
ReadPages ==
    /\ pc = "ocr"
    /\ all_lines' = NormalizeAll(pages)
    /\ raw_text' = TextsOf(all_lines')
    /\ ocr' = IF all_lines' = <<>> THEN OcrOutput(<<>>, <<>>, <<>>) ELSE ocr
    /\ pc' = IF all_lines' = <<>> THEN "extract" ELSE "cluster"
    /\ UNCHANGED <<lines_sorted, inserted, section_events, head, st, idx, result, clock,
                   headerVars, storeVars, pages, row_threshold, rows, current, date_x,
                   item_blocks>>

\* lines 92-102: the threshold, the sort (in place) and the first row
ClusterStart ==
    /\ pc = "cluster"
    /\ row_threshold' = RowThreshold(all_lines)
    /\ all_lines' = SortByTopY(all_lines)
    /\ rows' = <<>>
    /\ current' = << all_lines'[1] >>
    /\ idx' = 2
    /\ pc' = "sweep"
    /\ UNCHANGED <<ocr, lines_sorted, inserted, section_events, head, st, result, clock,
                   headerVars, storeVars, pages, raw_text, date_x, item_blocks>>

\* the rows and the row being filled after the sweep has taken a fragment
Swept(sw) == rows' = sw.rows /\ current' = sw.current

\* lines 104-110: the sweep takes the next fragment
Sweep ==
    /\ pc = "sweep"
    /\ idx <= Len(all_lines)
    /\ Swept(SweepStep([rows |-> rows, current |-> current], all_lines[idx], row_threshold))
    /\ idx' = idx + 1
    /\ UNCHANGED <<ocr, pc, lines_sorted, inserted, section_events, head, st, result, clock,
                   headerVars, storeVars, pages, all_lines, raw_text, row_threshold, date_x,
                   item_blocks>>

\* lines 112-118 and 176-181: the last row is closed, _cluster_rows returns,
\* and the anchor is estimated
ClusterEnd ==
    /\ pc = "sweep"
    /\ idx > Len(all_lines)
    /\ rows' = Append(rows, current)
    /\ current' = <<>>
    /\ date_x' = DateX(all_lines)
    /\ idx' = 1
    /\ pc' = "split"
    /\ UNCHANGED <<ocr, lines_sorted, inserted, section_events, head, st, result, clock,
                   headerVars, storeVars, pages, all_lines, raw_text, row_threshold,
                   item_blocks>>

\* lines 183-194: the next row is sorted by left x (in place), split, and
\* turned into an item block or dropped
SplitRow ==
    /\ pc = "split"
    /\ idx <= Len(rows)
    /\ rows' = [rows EXCEPT ![idx] = SortByLeftX(@)]
    /\ item_blocks' = item_blocks \o BlocksOfSplit(_split_columns(rows[idx], date_x))
    /\ idx' = idx + 1
    /\ UNCHANGED <<ocr, pc, lines_sorted, inserted, section_events, head, st, result, clock,
                   headerVars, storeVars, pages, all_lines, raw_text, row_threshold, current,
                   date_x>>

\* lines 196-200: run_ocr returns
ReturnOcr ==
    /\ pc = "split"
    /\ idx > Len(rows)
    /\ ocr' = OcrOutput(raw_text, all_lines, item_blocks)
    /\ pc' = "extract"
    /\ UNCHANGED <<lines_sorted, inserted, section_events, head, st, idx, result, clock,
                   headerVars, storeVars, ocrVars>>

\* main.py, line 31: extract_bill_data(ocr_result)
ExtractOcr ==
    /\ pc = "extract"
    /\ result' = extract(ocr, clock)
    /\ pc' = "done"
    /\ UNCHANGED <<ocr, lines_sorted, inserted, section_events, head, st, idx, clock,
                   headerVars, storeVars, ocrVars>>

NextOcr == ReadPages \/ ClusterStart \/ Sweep \/ ClusterEnd \/ SplitRow \/ ReturnOcr \/ ExtractOcr

SpecOcr == InitOcr /\ [][NextOcr]_vars

\* ------------------------------------------------------------------------
\* Properties of extract
\* ------------------------------------------------------------------------
RECURSIVE CountItems(_, _)
\* how many items the categories from the k-th on hold
CountItems(categorized, k) ==
    IF k > Len(CATEGORIES) THEN 0
    ELSE Len(categorized[CATEGORIES[k]]) + CountItems(categorized, k + 1)

ItemIds(items) ==
    UNION { { items[c][i].item_id : i \in 1..Len(items[c]) } : c \in CategorySet }

PaymentIds(payments) == { payments[i].payment_id : i \in 1..Len(payments) }

\* one loop iteration emitted its row as a payment and as an item
EmittedTwice ==
    /\ Len(st'.payments) > Len(st.payments)
    /\ CountItems(st'.categorized, 1) > CountItems(st.categorized, 1)

\* a returned result has an identifier both among its items and among its
\* payments
Overlapping == ItemIds(result.items) \cap PaymentIds(result.payments) # {}

\* C2: on the item-block path and on the line fallback path no iteration of
\* the loop emits its block or line both as a payment and as an item, and in
\* a returned result no identifier is found both among the items and among
\* the payments
C2_PaymentsDisjointFromItems ==
    /\ [][~EmittedTwice]_vars
    /\ [](pc = "returned" => ~Overlapping)

\* a result returned with payments and items side by side
C2_Witness ==
    /\ pc = "returned"
    /\ result.payments # <<>>
    /\ CountItems(result.items, 1) > 0

\* the sum of the amounts of a sequence of items, from the last one down
SumUpTo(items, n) ==
    LET s[k \in 0..n] == IF k = 0 THEN 0 ELSE s[k - 1] + items[k].amount
    IN  s[n]

\* the sum of the subtotals over the set of categories
TotalOf(subtotals) ==
    LET RECURSIVE Over(_)
        Over(S) == IF S = {} THEN 0
                   ELSE LET c == CHOOSE x \in S : TRUE IN subtotals[c] + Over(S \ {c})
    IN  Over(DOMAIN subtotals)

\* C3: in a returned result every one of the 11 categories has a subtotal,
\* each the sum of the amounts of that category's items, and the grand total
\* is the sum of the subtotals (amounts in hundredths, so already rounded)
C3_TotalsConsistent ==
    pc = "returned" =>
        /\ DOMAIN result.subtotals = CategorySet
        /\ Cardinality(CategorySet) = 11
        /\ \A c \in CategorySet :
              result.subtotals[c] = SumUpTo(result.items[c], Len(result.items[c]))
        /\ result.grand_total = TotalOf(result.subtotals)

\* a result with items in two categories, so that the grand total adds up
\* more than one subtotal
C3_Witness ==
    /\ pc = "returned"
    /\ \E c, d \in CategorySet :
          /\ c # d
          /\ result.subtotals[c] > 0
          /\ result.subtotals[d] > 0
          /\ result.grand_total = result.subtotals[c] + result.subtotals[d]

\* the line the fallback loop is about to take, and the block the block loop
\* is about to take
AtLine == pc = "lines" /\ idx <= Len(lines_sorted)

AtBlock == pc = "blocks" /\ idx <= Len(ocr.item_blocks)

LineIsPayment == is_paymentish(_normalize_ws(lines_sorted[idx].text))

BlockIsPayment ==
    \/ is_paymentish(_normalize_ws(ocr.item_blocks[idx].text))
    \/ is_paymentish(_normalize_ws(ocr.item_blocks[idx].description))

\* the iteration appended one payment and touched nothing else
RoutedToPayments ==
    /\ Len(st'.payments) = Len(st.payments) + 1
    /\ st'.categorized = st.categorized
    /\ st'.current_section = st.current_section

\* C7: exclusion-first routing on both paths: the iteration over an item
\* block or a fallback line that payment detection matches appends one
\* payment, leaves the categories alone and leaves the active section alone
C7_ExclusionFirst ==
    [][ /\ (AtBlock /\ BlockIsPayment) => RoutedToPayments
        /\ (AtLine /\ LineIsPayment) => RoutedToPayments ]_vars

\* the description holds the receipt-reference token in some letter case
TokenIn(description) == Contains(Lower(description), "rcpo-")

HasToken(categorized) ==
    \E c \in CategorySet : \E i \in 1..Len(categorized[c]) :
        TokenIn(categorized[c][i].description)

ResultFields == {"extraction_date", "header", "patient", "items", "payments", "subtotals",
                 "grand_total", "raw_ocr_text"}

\* C8: a returned document is complete and none of its item descriptions
\* holds the token RCPO- in any letter case; when the loop is over, a run
\* whose categorized items hold the token aborts with the assertion error and
\* every other run returns
C8_GuardAbortsOnLeak ==
    /\ [](pc = "returned" => DOMAIN result = ResultFields /\ ~HasToken(result.items))
    /\ [](pc = "raised" => HasToken(st.categorized))
    /\ [][LoopDone => pc' = IF HasToken(st.categorized) THEN "raised" ELSE "returned"]_vars

\* a run that aborted on an item whose description holds the token
C8_Witness == pc = "raised" /\ HasToken(st.categorized)

\* C9: the leakage assertion is never triggered by input data: no categorized
\* item's description holds RCPO-, and no run ends in the assertion error
C9_LeakUnreachable == ~HasToken(st.categorized) /\ pc # "raised"

\* the places section_at is asked about
MaxQueryPage == 2

MaxQueryY == 11

QueryPoints == { <<p, y>> : p \in 0..MaxQueryPage, y \in 0..MaxQueryY }

\* the events at or before the point q, by their place in the order of
\* insertion
AtOrBefore(q) == { i \in 1..Len(inserted) : KeyLeq(inserted[i][1], q) }

\* the nearest of them: no other is later in (page, y) order, and among those
\* with the same key no other was inserted later
Nearest(q) ==
    CHOOSE i \in AtOrBefore(q) :
        \A j \in AtOrBefore(q) :
            \/ KeyLess(inserted[j][1], inserted[i][1])
            \/ (inserted[j][1] = inserted[i][1] /\ j <= i)

\* C10: section_at(page, y) is the section of the event with the greatest
\* key at or before (page, y) in lexicographic (page, y) order, of the one
\* inserted last when several events have that key, and None when no event is
\* at or before (page, y)
C10_SectionAtNearestPreceding ==
    pc # "start" =>
        \A q \in QueryPoints :
            section_at(section_events, q[1], q[2]) =
                IF AtOrBefore(q) = {} THEN None ELSE inserted[Nearest(q)][2]

\* an event, then two later events with the same key and different
\* sections: at their key the one inserted last is found, before it the first
C10_Witness ==
    /\ pc # "start"
    /\ Len(inserted) = 3
    /\ KeyLess(inserted[1][1], inserted[2][1])
    /\ inserted[2][1] = inserted[3][1]
    /\ inserted[2][2] # inserted[3][2]
    /\ inserted[1][2] # inserted[3][2]
    /\ section_at(section_events, inserted[3][1][1], inserted[3][1][2]) = inserted[3][2]
    /\ section_at(section_events, inserted[1][1][1], inserted[1][1][2]) = inserted[1][2]

\* ------------------------------------------------------------------------
\* Properties of the header lock
\* ------------------------------------------------------------------------
\* the places among the offered candidates of those for field f that pass
\* validation
ValidOffers(f) ==
    { i \in 1..Len(offered) : offered[i].field = f /\ _validate(f, offered[i].value) }

FirstValid(f) == offered[CHOOSE i \in ValidOffers(f) : \A j \in ValidOffers(f) : i <= j]

\* what the finalized header holds for field f
Finalized(f) ==
    CASE f = "bill_number" -> head.header.primary_bill_number
      [] f = "billing_date" -> head.header.billing_date
      [] f = "patient_mrn" -> head.patient.mrn
      [] f = "patient_name" -> IF head.patient.name = "UNKNOWN" THEN None ELSE head.patient.name

\* C1: after every offer, a field is locked exactly when some candidate
\* offered for it has passed validation, and its locked value is that of the
\* first such candidate, whatever was offered before or after it; the
\* finalized header has the locked fields and no others
C1_FirstValidCandidateLocks ==
    /\ DOMAIN best = { f \in HEADER_FIELDS : ValidOffers(f) # {} }
    /\ \A f \in DOMAIN best : best[f] = FirstValid(f)
    /\ pc = "locked" =>
          /\ DOMAIN finalize(best) = { f \in HEADER_FIELDS : ValidOffers(f) # {} }
          /\ \A f \in HEADER_FIELDS :
                Finalized(f) = IF ValidOffers(f) = {} THEN None ELSE FirstValid(f).value

\* a candidate that fails validation, then a valid one that locks, then a
\* second valid one with another value that does not change the lock
C1_Witness ==
    /\ pc = "locked"
    /\ \E i, j, k \in 1..Len(offered) :
          /\ i < j /\ j < k
          /\ offered[i].field = offered[j].field /\ offered[j].field = offered[k].field
          /\ ~_validate(offered[i].field, offered[i].value)
          /\ _validate(offered[j].field, offered[j].value)
          /\ _validate(offered[k].field, offered[k].value)
          /\ offered[j].value # offered[k].value
          /\ offered[j].page < offered[k].page
          /\ best[offered[j].field] = offered[j]

\* ------------------------------------------------------------------------
\* Properties of the stored documents
\* ------------------------------------------------------------------------
UploadIdOf(p) == p.update.setOnInsert.upload_id

\* the upload identifiers some applied upsert was made under
UploadsApplied == { UploadIdOf(applied[i]) : i \in 1..Len(applied) }

\* the places among the applied calls of those made under u
AppliedTo(u) == { i \in 1..Len(applied) : UploadIdOf(applied[i]) = u }

FirstAppliedTo(u) == applied[CHOOSE i \in AppliedTo(u) : \A j \in AppliedTo(u) : i <= j]

LastAppliedTo(u) == applied[CHOOSE i \in AppliedTo(u) : \A j \in AppliedTo(u) : j <= i]

\* the stored documents of the upload u
DocumentsOf(coll, u) == { coll[i] : i \in { j \in 1..Len(coll) : coll[j].upload_id = u } }

DocumentOf(coll, u) == CHOOSE d \in DocumentsOf(coll, u) : TRUE

HowManyOf(coll, u) == Cardinality({ j \in 1..Len(coll) : coll[j].upload_id = u })

\* C5: after any interleaving of upsert_bill calls the collection holds
\* exactly one document for every upload identifier an upsert was applied
\* under and no other document, and the upload_id, source_pdf and created_at
\* of that document are those of the first upsert applied under it
C5_OneDocumentPerUpload ==
    /\ Len(collection) = Cardinality(UploadsApplied)
    /\ \A u \in UploadsApplied :
          /\ HowManyOf(collection, u) = 1
          /\ DocumentOf(collection, u).upload_id = u
          /\ DocumentOf(collection, u).source_pdf = FirstAppliedTo(u).pdf
          /\ DocumentOf(collection, u).created_at =
                FirstAppliedTo(u).update.setOnInsert.created_at

\* two documents, one of them upserted twice from uploads with different
\* page counts and numbers of bill numbers, the later built one applied first
C5_Witness ==
    /\ Len(collection) = 2
    /\ \E i, j \in AppliedTo("u1") :
          /\ i < j
          /\ applied[i].call > applied[j].call
          /\ applied[i].update.set.page_count # applied[j].update.set.page_count
          /\ Len(applied[i].update.set.header.bill_numbers)
                # Len(applied[j].update.set.header.bill_numbers)

\* the call p is the one applied in this step
Applies(p) == p \in pending /\ applied' = Append(applied, p)

\* p repeats the upsert last applied under its upload identifier: the same
\* upload, extracted again
Reingests(p) ==
    /\ AppliedTo(UploadIdOf(p)) # {}
    /\ LastAppliedTo(UploadIdOf(p)).pdf = p.pdf

NoDuplicates(arr) == \A i, j \in 1..Len(arr) : arr[i] = arr[j] => i = j

\* the second upsert found the items and payments of the first, with the
\* same identifiers, and left the stored items, payments and totals as they
\* were, each stored entry being there once
LeftUnchanged(p, old, new) ==
    /\ p.update.addToSet = LastAppliedTo(UploadIdOf(p)).update.addToSet
    /\ new.items = old.items
    /\ new.payments = old.payments
    /\ new.subtotals = old.subtotals
    /\ new.grand_total = old.grand_total
    /\ NoDuplicates(new.payments)
    /\ \A c \in DOMAIN new.items : NoDuplicates(new.items[c])

\* C4: when the same upload is extracted again and upserted under the same
\* upload identifier right after its first upsert, the second extraction
\* has the same items and payments with the same identifiers, and the
\* stored items, payments, subtotals and grand total stay as they were,
\* with no entry stored twice
C4_ReingestionIdempotent ==
    [][ \A p \in pending :
          (Applies(p) /\ Reingests(p)) =>
              LeftUnchanged(p, DocumentOf(collection, UploadIdOf(p)),
                            DocumentOf(collection', UploadIdOf(p))) ]_vars

\* an upload with an item and a payment upserted twice in a row under u1
C4_Witness ==
    \E i, j \in AppliedTo("u1") :
        /\ i < j
        /\ \A k \in AppliedTo("u1") : ~(i < k /\ k < j)
        /\ applied[i].pdf = applied[j].pdf
        /\ applied[i].update.addToSet.payments # <<>>
        /\ ItemIds(applied[i].update.addToSet.items) # {}
        /\ applied[i].update.set.extraction_date # applied[j].update.set.extraction_date
        /\ Len(DocumentOf(collection, "u1").payments) = 1

RECURSIVE Replay(_, _)
\* the collection after the updates of calls are applied to coll in order
Replay(coll, updates) ==
    IF updates = <<>> THEN coll
    ELSE Replay(update_one(coll, UploadIdOf(Head(updates)), Head(updates).update),
                Tail(updates))

\* the calls applied under u, in the order perm of their places
Reordered(places, perm) == [k \in 1..Len(places) |-> applied[places[perm[k]]]]

RECURSIVE Ascending(_)
Ascending(S) ==
    IF S = {} THEN <<>>
    ELSE <<MinOrZero(S)>> \o Ascending(S \ {MinOrZero(S)})

\* what is compared of two final documents: the items and payments as sets,
\* the totals, the header and the patient; the times of writing are left out
ContentOf(d) ==
    [items |-> [c \in DOMAIN d.items |-> { d.items[c][i] : i \in 1..Len(d.items[c]) }],
     payments |-> { d.payments[i] : i \in 1..Len(d.payments) },
     subtotals |-> d.subtotals, grand_total |-> d.grand_total,
     header |-> d.header, patient |-> d.patient]

\* C6: the stored document of an upload identifier is the one that any other
\* order of the upserts applied under it would have produced, and holds no
\* item and no payment twice
C6_OrderIndependent ==
    \A u \in UploadsApplied :
        /\ NoDuplicates(DocumentOf(collection, u).payments)
        /\ \A c \in CategorySet : NoDuplicates(DocumentOf(collection, u).items[c])
        /\ \A perm \in Permutations(1..Cardinality(AppliedTo(u))) :
              ContentOf(DocumentOf(Replay(<<>>, Reordered(Ascending(AppliedTo(u)), perm)), u))
                  = ContentOf(DocumentOf(collection, u))

\* the LineItems of the result, whatever list holds them
ResultItems ==
    UNION { { result.items[c][i] : i \in 1..Len(result.items[c]) } : c \in DOMAIN result.items }

\* C12: category resolution prefers the active section and otherwise falls
\* back to keywords of the description: the row "Paracetamol 500mg ... 45.00"
\* of a document without any section header comes out as a LineItem of
\* category medicines with amount 45.00.
C12_KeywordFallback ==
    (pc = "returned" /\ inserted = <<>>)
        => \A it \in ResultItems :
              Contains(it.description, "Paracetamol 500mg")
                  => it.category = "medicines" /\ it.amount = 4500

\* the category keys number eleven, and every LineItem of the mapping has the
\* key of its list as category and lies in "other" when its section is
\* absent or outside the keys
ClosedOver(items) ==
    /\ DOMAIN items = CategorySet
    /\ Cardinality(DOMAIN items) = 11
    /\ \A c \in DOMAIN items : \A i \in 1..Len(items[c]) :
          /\ items[c][i].category = c
          /\ items[c][i].section_raw \notin CategorySet => c = "other"
          /\ items[c][i].section_raw \in CategorySet => c = items[c][i].section_raw

\* C14: category closure: the items mapping of every result of extract has
\* exactly the 11 fixed category keys, the category of every LineItem is one
\* of them and is the key of the list that holds it, and an item whose
\* active section is absent or not among the keys is placed in "other".
C14_CategoryClosure ==
    /\ ClosedOver(st.categorized)
    /\ pc = "returned" => ClosedOver(result.items)

\* a result with an item without section in "other" and an item under the
\* section that was active at its place
C14_Witness ==
    /\ pc = "returned"
    /\ \E i \in 1..Len(result.items["other"]) : result.items["other"][i].section_raw = None
    /\ \E c \in CategorySet \ {"other"} : result.items[c] # <<>>

\* ------------------------------------------------------------------------
\* Properties of clustering followed by extraction
\* ------------------------------------------------------------------------
\* the scan opens with a section caption, every fragment has a box of points,
\* no other fragment is a section header, and every other fragment lies
\* below the caption: further down page 1, or on page 2
CaptionOnTop ==
    /\ pages # <<>>
    /\ pages[1] # <<>>
    /\ detect_section_header(pages[1][1].text) # None
    /\ \A p \in 1..Len(pages) : \A i \in 1..Len(pages[p]) :
          /\ Len(pages[p][i].box) = 3
          /\ <<p, i>> # <<1, 1>> =>
                /\ detect_section_header(Strip(pages[p][i].text)) = None
                /\ p = 1 => _top_y(pages[p][i].box) > _top_y(pages[1][1].box)

\* the items of the result that are filed outside the category c
ItemsOutside(c) == { k \in CategorySet \ {c} : result.items[k] # <<>> }

\* C11: when a document goes through run_ocr and then extract, a section
\* header governs every item row below it, on its page and on the next,
\* until another header appears: with a caption on top and no other header,
\* every LineItem of the result is filed under the section of the caption.
C11_SectionGovernsRowsBelow ==
    (pc = "done" /\ CaptionOnTop /\ "raised" \notin DOMAIN result)
        => ItemsOutside(detect_section_header(pages[1][1].text)) = {}

\* ------------------------------------------------------------------------
\* Properties of the items, returned and stored
\* ------------------------------------------------------------------------
\* the places of the LineItems in the category lists
ItemPlaces(items) == UNION { { <<c, i>> : i \in 1..Len(items[c]) } : c \in DOMAIN items }

\* two LineItems at different places have the same item_id
SharesItemId(items) ==
    \E a, b \in ItemPlaces(items) :
        a # b /\ items[a[1]][a[2]].item_id = items[b[1]][b[2]].item_id

\* the results extract returned to the calls of process_bill made so far
ReturnedItems ==
    { p.update.addToSet.items : p \in pending } \cup
    { applied[i].update.addToSet.items : i \in 1..Len(applied) }

\* C13: LineItems are never duplicated by content: no two LineItems of one
\* document have the same item_id, neither in a result returned by extract
\* nor in a stored document, after any sequence of upsert_bill calls.
C13_NoDuplicateItems ==
    /\ \A returned \in ReturnedItems : ~SharesItemId(returned)
    /\ \A i \in 1..Len(collection) : ~SharesItemId(collection[i].items)

\* the stored subtotals are the sums of the stored items, and the stored
\* grand total is the sum of the stored subtotals
TotalsMatch(d) ==
    /\ \A c \in CategorySet :
          d.subtotals[c] = SumUpTo(IF c \in DOMAIN d.items THEN d.items[c] ELSE <<>>,
                                   IF c \in DOMAIN d.items THEN Len(d.items[c]) ELSE 0)
    /\ d.grand_total = TotalOf(d.subtotals)

\* C15: after any sequence of upsert_bill calls for one upload identifier
\* the stored document keeps total consistency: subtotals[c] is the rounded
\* sum of the amounts of the stored items[c] for every category, and
\* grand_total is the rounded sum of the stored subtotals.
C15_StoredTotalsConsistent == \A i \in 1..Len(collection) : TotalsMatch(collection[i])

\* ------------------------------------------------------------------------
\* Properties of the clusterer
\* ------------------------------------------------------------------------
RECURSIVE Flattened(_)
\* the fragments of the rows, row after row
Flattened(rs) == IF rs = <<>> THEN <<>> ELSE Head(rs) \o Flattened(Tail(rs))

\* the input of _cluster_rows: the fragments in reading order
ClusterInput == NormalizeAll(pages)

\* the fragments of s are those of t, each as often as in t
SameFragments(s, t) ==
    /\ Len(s) = Len(t)
    /\ \A f \in { s[i] : i \in 1..Len(s) } :
          Cardinality({ i \in 1..Len(s) : s[i] = f }) = Cardinality({ i \in 1..Len(t) : t[i] = f })

TopYDistance(f, g) ==
    IF _top_y(f.box) < _top_y(g.box) THEN _top_y(g.box) - _top_y(f.box)
    ELSE _top_y(f.box) - _top_y(g.box)

\* d <= 0.8 * (total / n), or d <= 15 when the average height total / n is zero
AtMostThreshold(d, total, n) == IF total > 0 THEN 10 * n * d <= 8 * total ELSE d <= 15

Close(f, g) == AtMostThreshold(TopYDistance(f, g), SumHeights(ClusterInput), Len(ClusterInput))

\* the rows closed so far, and the row being filled if the sweep is under way
RowsSoFar == IF current = <<>> THEN rows ELSE Append(rows, current)

\* the fragments the sweep has gone over
SweptSoFar == IF pc = "sweep" THEN SubSeq(all_lines, 1, idx - 1) ELSE all_lines

\* _cluster_rows has returned and no row was sorted by left x yet
Clustered == pc = "split" /\ idx = 1

\* C16: _cluster_rows partitions a non-empty fragment set into rows, every
\* fragment in exactly one row and none lost, by one sweep in ascending order
\* of top y: two consecutive fragments of a row differ in top y by at most
\* row_threshold, the first fragment of a new row is more than row_threshold
\* from the last fragment added to the row before, and row_threshold is 0.8
\* times the average fragment height, or 15 when that average is zero.
C16_ClusterRowsSweep ==
    (pc = "sweep" \/ Clustered) =>
        /\ Flattened(RowsSoFar) = SweptSoFar
        /\ SameFragments(all_lines, ClusterInput)
        /\ \A i \in 1..(Len(all_lines) - 1) : _top_y(all_lines[i].box) <= _top_y(all_lines[i + 1].box)
        /\ \A r \in 1..Len(RowsSoFar) :
              /\ RowsSoFar[r] # <<>>
              /\ \A i \in 1..(Len(RowsSoFar[r]) - 1) : Close(RowsSoFar[r][i], RowsSoFar[r][i + 1])
              /\ r > 1 => ~Close(RowsSoFar[r - 1][Len(RowsSoFar[r - 1])], RowsSoFar[r][1])

\* the rows are there: two of them, and one whose last fragment is more
\* than the threshold below its first, the sweep having gone from fragment
\* to fragment
C16_Witness ==
    /\ Clustered
    /\ Len(rows) >= 2
    /\ SumHeights(ClusterInput) > 0
    /\ \E r \in 1..Len(rows) : Len(rows[r]) >= 3 /\ ~Close(rows[r][1], rows[r][Len(rows[r])])

\* x is the anchor: the least left x of the date-like fragments, or 250
IsAnchor(x) ==
    IF \E i \in 1..Len(ClusterInput) : IsDateCandidate(ClusterInput[i].text)
    THEN /\ \E i \in 1..Len(ClusterInput) :
              IsDateCandidate(ClusterInput[i].text) /\ _left_x(ClusterInput[i].box) = x
         /\ \A i \in 1..Len(ClusterInput) :
              IsDateCandidate(ClusterInput[i].text) => x <= _left_x(ClusterInput[i].box)
    ELSE x = 250

\* the places in a row of the fragments left of the anchor, and of the others
LeftOfAnchor(row) == { i \in 1..Len(row) : _left_x(row[i].box) < date_x }

RightOfAnchor(row) == { i \in 1..Len(row) : _left_x(row[i].box) >= date_x }

\* the k-th least number of S
Kth(S, k) == CHOOSE i \in S : Cardinality({ j \in S : j < i }) = k - 1

\* the texts of the fragments of the row at the places S, in the order of the row
TextsAt(row, S) == [k \in 1..Cardinality(S) |-> row[Kth(S, k)].text]

AscendingLeftX(row) ==
    \A i \in 1..(Len(row) - 1) : _left_x(row[i].box) <= _left_x(row[i + 1].box)

\* the rows run_ocr has split so far
SplitSoFar == IF pc = "split" THEN idx - 1 ELSE Len(rows)

\* those of them with a fragment on either side of the anchor
Yielding == { r \in 1..SplitSoFar : LeftOfAnchor(rows[r]) # {} /\ RightOfAnchor(rows[r]) # {} }

\* the k-th item block is the block of the k-th yielding row
BlockOfRow(block, row) ==
    /\ AscendingLeftX(row)
    /\ block.description = Join(TextsAt(row, LeftOfAnchor(row)), " ")
    /\ block.columns = TextsAt(row, RightOfAnchor(row))

NoGeometryAtAll == \A i \in 1..Len(ClusterInput) : ClusterInput[i].box = <<>>

\* C17: a clustered row yields an ItemBlock if and only if it has a fragment
\* with left x below the anchor and one with left x at or above it; the
\* description of the block is the former and its columns the latter, each
\* in ascending order of left x; the one anchor of the document is the least
\* left x over the date-like fragments, or 250 without any, so that fragments
\* all without geometry yield no item block.
C17_RowYieldsBlock ==
    ((pc = "split" \/ pc = "extract" \/ pc = "done") /\ ClusterInput # <<>>) =>
        /\ IsAnchor(date_x)
        /\ SameFragments(Flattened(rows), ClusterInput)
        /\ Len(item_blocks) = Cardinality(Yielding)
        /\ \A k \in 1..Len(item_blocks) : BlockOfRow(item_blocks[k], rows[Kth(Yielding, k)])
        /\ pc # "split" => ocr.item_blocks = item_blocks
        /\ NoGeometryAtAll => item_blocks = <<>>

\* run_ocr has returned: the anchor came from a date, a row became an item
\* block and another row was dropped
C17_Witness ==
    /\ pc = "extract"
    /\ date_x < DefaultDateX
    /\ item_blocks # <<>>
    /\ Len(rows) > Len(item_blocks)

\* ------------------------------------------------------------------------
\* Properties of the amount of an item block
\* ------------------------------------------------------------------------
\* the block the loop is about to take is not payment-like, in its text or
\* in its description
AtItemBlock == AtBlock /\ ~BlockIsPayment

\* the columns of that block that parse as an amount
ParsingColumns ==
    { k \in 1..Len(ocr.item_blocks[idx].columns) :
        extract_amount_from_text(ocr.item_blocks[idx].columns[k]) # NoNum }

\* the step files one more LineItem, with the amount a
FilesItemOf(a) ==
    /\ st'.payments = st.payments
    /\ \E c \in CategorySet :
          /\ Len(st'.categorized[c]) = Len(st.categorized[c]) + 1
          /\ SubSeq(st'.categorized[c], 1, Len(st.categorized[c])) = st.categorized[c]
          /\ st'.categorized[c][Len(st.categorized[c]) + 1].amount = a
          /\ \A d \in CategorySet \ {c} : st'.categorized[d] = st.categorized[d]

\* the block becomes a LineItem with the amount a if a exists (is not None)
\* and is greater than 0, and else leaves everything as it is
BecomesItemIfPositive(a) == IF a # NoNum /\ a > 0 THEN FilesItemOf(a) ELSE st' = st

\* the amount is that of the last column that parses, and with none the
\* trailing amount of the whole text
LastColumnOrTextDecides ==
    IF ParsingColumns = {}
    THEN BecomesItemIfPositive(extract_amount_from_text(_normalize_ws(ocr.item_blocks[idx].text)))
    ELSE \A k \in ParsingColumns :
            (\A j \in ParsingColumns : j <= k)
                => BecomesItemIfPositive(extract_amount_from_text(ocr.item_blocks[idx].columns[k]))

AmountsPositive(items) == \A c \in DOMAIN items : \A i \in 1..Len(items[c]) : items[c][i].amount > 0

\* C18: the amount of a non-payment item block is the value of the last
\* column token, scanning from the right, that parses as an amount, and
\* otherwise the trailing amount of the full block text; the block becomes a
\* LineItem if and only if that amount exists and is greater than 0, so that
\* every LineItem of any result has an amount greater than 0.
C18_BlockAmount ==
    /\ [][(AtItemBlock /\ NextBlock) => LastColumnOrTextDecides]_vars
    /\ [](AmountsPositive(st.categorized) /\ (pc = "returned" => AmountsPositive(result.items)))

\* a result: the amount 45.00 of an item came from the last of its columns,
\* the amount 12.00 of another from its text, and a block with amount 0.00
\* was dropped
C18_Witness ==
    /\ pc = "returned"
    /\ Len(ocr.item_blocks) = 3
    /\ \E i, j, k \in 1..3 :
          /\ ocr.item_blocks[i].columns = <<"1", "45.00">>
          /\ ocr.item_blocks[j].columns = <<>>
          /\ ocr.item_blocks[k].columns = <<"0.00", "n/a">>
    /\ { it.amount : it \in ResultItems } = {4500, 1200}

=============================================================================
